---- MODULE Spec2Model ----
(***************************************************************************)
(* Voice-driven interview orchestration engine (frontend/hooks):           *)
(* useInterview (session orchestrator), useVoiceRecorder (silence-gated    *)
(* recorder), useInterviewAudio (playback controller), useIdleDetection    *)
(* and the debounced code autosave.                                        *)
(*                                                                         *)
(* Execution model: one event loop.  Every action below is one task of the *)
(* loop (a click, a timer callback, a media event, a promise continuation) *)
(* and runs to completion.  A React callback reads the state of the render *)
(* that created it; the model re-renders after every task, so a callback   *)
(* captures the state at the moment it is handed out (the closure records  *)
(* below), and reads refs (isMutedRef, isRecordingRef, startRecordingRef)  *)
(* at the moment it runs.                                                  *)
(***************************************************************************)
EXTENDS Integers, Sequences, FiniteSets, TLC

\* ---------------------------------------------------------------- bounds
MaxCalls == 2       \* API calls issued in one run
MaxPending == 1     \* recorder tasks pending at once: microphone requests,
                    \* stop events and auto-restart timers

MaxEdits == 3       \* code edits in a run of the autosave
MaxIdleEdits == 1   \* code edits in a run of the idle monitor
HorizonMs == 80000  \* time after mount a run of the idle monitor covers
BurstMs == 2400     \* time after mount a run of the autosave covers
FineStepMs == 100   \* the clock's step in a run of the autosave
FrameMs == 500      \* time between two animation frames in a run of the recorder
ListenMs == 4000    \* recording time a run of the recorder covers

\* ------------------------------------------------------ program constants
MinClipBytes == 1000
IdleThresholdS == 30    \* useIdleDetection: idleThreshold, seconds
CooldownMs == 30000     \* useIdleDetection: cooldown
PollMs == 5000          \* useIdleDetection: setInterval period
MsPerSecond == 1000     \* useIdleDetection: idleTime in whole seconds
DebounceMs == 800       \* handleCodeChange: autosave delay
SilenceDurationMs == 1500   \* useInterview: silenceDuration

\* clip sizes tried: empty, just below the threshold, the threshold
ClipSizes == {0, MinClipBytes - 1, MinClipBytes}

VARIABLES
    state,          \* useInterview: InterviewState (isMutedRef mirrors isMuted)
    audio,          \* useInterviewAudio: the element of audioRef, isPlaying
    rec,            \* useVoiceRecorder: isRecordingRef, pending requests, stop events
    timers,         \* pending setTimeout(() => startRecordingRef.current?.())
    calls,          \* interview API calls in flight, in the order sent
    nCalls,         \* API calls issued so far
    cap,            \* the bounds of this run: calls issued, tasks pending,
                    \* the clock's step, the time covered, code edits
    srv,            \* the interview service's session
    codeDebounce,   \* codeDebounceRef: an autosave timer is pending
    last,           \* what the latest task did, where a property asks
    lastDeclared,   \* stage of the last response applied to the mirror
    clk,            \* the clock, the idle monitor's refs and interval, the
                    \* autosave timers, and the history timed properties ask
    vad             \* useVoiceRecorder: hasSpokenRef, silenceStartRef, and the
                    \* samples checkAudioLevel has read in this recording

vars == <<state, audio, rec, timers, calls, nCalls, cap, srv, codeDebounce,
          last, lastDeclared, clk, vad>>

\* ------------------------------------------------- the interview service
StageNames == {"INTRO", "SCREENING", "TASK", "CODING", "ENDED", "ENDED_EARLY"}

StageOrder(s) ==
    CASE s = "INTRO" -> 0
      [] s = "SCREENING" -> 1
      [] s = "TASK" -> 2
      [] s = "CODING" -> 3
      [] s = "ENDED" -> 4
      [] s = "ENDED_EARLY" -> 5

Terminal(s) == s \in {"ENDED", "ENDED_EARLY"}

\* the stages the service may declare after s: the same, the next one, or
\* the early end
NextStages(s) ==
    IF Terminal(s) THEN {s}
    ELSE {s, "ENDED_EARLY"} \cup {t \in StageNames \ {"ENDED_EARLY"} : StageOrder(t) = StageOrder(s) + 1}

\* the edit flag the service may declare with a stage
CanEditChoices(s) == IF s \in {"TASK", "CODING"} THEN BOOLEAN ELSE {FALSE}

Response(stg, edit, msgs, assistant, hasAudio) ==
    [stage |-> stg, can_edit_code |-> edit,
     task_unlocked |-> stg \in {"TASK", "CODING", "ENDED"},
     interview_ended |-> Terminal(stg), early_termination |-> stg = "ENDED_EARLY",
     messages_tail |-> msgs, assistant |-> assistant, audio |-> hasAudio]

\* the responses the service may give to a call of this kind, with the
\* session it is left in: start declares the stored stage, audio may move
\* the stage on, idle answers with a nudge or with nothing
ServiceAnswers(kind) ==
    {[resp |-> Response(stg, edit, n, assistant, hasAudio),
      srv |-> [stage |-> stg, msgs |-> n]] :
        stg \in (IF kind = "audio" THEN NextStages(srv.stage) ELSE {srv.stage}),
        edit \in BOOLEAN, assistant \in BOOLEAN, hasAudio \in BOOLEAN,
        n \in {srv.msgs, srv.msgs + 1, srv.msgs + 2}}

ServiceAnswer(kind, a) ==
    /\ a.resp.can_edit_code \in CanEditChoices(a.resp.stage)
    /\ a.resp.assistant \/ (kind = "idle" /\ ~a.resp.audio)
    /\ a.resp.messages_tail = srv.msgs +
         (IF ~a.resp.assistant THEN 0 ELSE IF kind = "audio" THEN 2 ELSE 1)

\* ------------------------------------------------------ playback controller
Sounding(a) == a.el \in {"pending", "playing"}

\* the controller is idle: nothing sounds and isPlaying is false
Idle(a) == ~Sounding(a) /\ ~a.isPlaying

\* a stopAudio that flips isPlaying instead of clearing it
StopAudioFlips(a) ==
    IF a.el = "none" THEN a
    ELSE [a EXCEPT !.el = "stopped", !.isPlaying = ~@,
                   !.cancelled = @ \/ Sounding(a)]

\* a stopAudio that clears isPlaying but does not pause the element
StopAudioNoPause(a) ==
    IF a.el = "none" THEN a
    ELSE [a EXCEPT !.isPlaying = FALSE, !.cancelled = @ \/ Sounding(a)]

\* stopAudio: pause and rewind the element audioRef points to; cancelled
\* records that this cut a payload short
StopAudio(a) ==
    IF a.el = "none" THEN a
    ELSE [a EXCEPT !.el = "stopped", !.isPlaying = FALSE,
                   !.cancelled = @ \/ Sounding(a)]

\* a playAudio that does not call stopAudio first
PlayAudioNoCancel(a) ==
    [a EXCEPT !.el = "pending", !.playEvt = TRUE,
              !.cancelled = FALSE, !.endedCb = 0,
              !.detached = @ + (IF Sounding(a) THEN 1 ELSE 0)]

\* playAudio: stopAudio, then a new element whose play() is called; an
\* element left sounding is no longer reachable through audioRef
PlayAudio(a) ==
    LET s == StopAudio(a) IN
    [s EXCEPT !.el = "pending", !.playEvt = TRUE,
              !.cancelled = FALSE, !.endedCb = 0,
              !.detached = @ + (IF Sounding(s) THEN 1 ELSE 0)]

\* ----------------------------------------------------------------- recorder
\* the render a startRecording call's callbacks come from: handleRecordingStop
\* reads started and sending, handleRecordingStart reads playing
CurrentClosure ==
    [started |-> state.interviewStarted, sending |-> state.isSending,
     playing |-> audio.isPlaying]

\* startRecording up to its first await: the isRecordingRef guard, then getUserMedia
StartRecording(r, cl) ==
    IF r.isRecording THEN r ELSE [r EXCEPT !.acq = Append(@, cl), !.error = FALSE]

\* stopRecording: the MediaRecorder delivers its clip in a later task
StopRecording(r) ==
    IF ~r.isRecording THEN r
    ELSE [r EXCEPT !.isRecording = FALSE, !.stopq = Append(@, r.cb), !.held = FALSE]

\* startRecording's catch block: setError, then stopRecording
FailedStart(r) == [StopRecording(r) EXCEPT !.error = TRUE]

\* startRecording's reset of hasSpokenRef and silenceStartRef (0: null) that
\* leaves hasSpokenRef as it is
VadResetKeepsSpoken(v) ==
    [v EXCEPT !.silenceStart = 0, !.samples = <<>>,
              !.heardBefore = @ \/ v.hasSpoken]

\* startRecording's reset of hasSpokenRef and silenceStartRef (0: null);
\* heardBefore records that an earlier recording heard speech
VadReset(v) ==
    [v EXCEPT !.hasSpoken = FALSE, !.silenceStart = 0, !.samples = <<>>,
              !.heardBefore = @ \/ v.hasSpoken]

\* a checkAudioLevel that stops as soon as the silence has lasted the duration
CheckAudioLevelAtDuration(v, silent, now) ==
    LET w == [v EXCEPT !.samples = Append(@, [at |-> now, silent |-> silent])] IN
    IF ~silent
    THEN [vad |-> [w EXCEPT !.hasSpoken = TRUE, !.silenceStart = 0], stop |-> FALSE]
    ELSE IF ~v.hasSpoken THEN [vad |-> w, stop |-> FALSE]
    ELSE IF v.silenceStart = 0
    THEN [vad |-> [w EXCEPT !.silenceStart = now], stop |-> FALSE]
    ELSE [vad |-> w, stop |-> now - v.silenceStart >= SilenceDurationMs]

\* checkAudioLevel on a sample read at now: the refs it leaves, and whether
\* it calls stopRecording
CheckAudioLevel(v, silent, now) ==
    LET w == [v EXCEPT !.samples = Append(@, [at |-> now, silent |-> silent])] IN
    IF ~silent
    THEN [vad |-> [w EXCEPT !.hasSpoken = TRUE, !.silenceStart = 0], stop |-> FALSE]
    ELSE IF ~v.hasSpoken THEN [vad |-> w, stop |-> FALSE]
    ELSE IF v.silenceStart = 0
    THEN [vad |-> [w EXCEPT !.silenceStart = now], stop |-> FALSE]
    ELSE [vad |-> w, stop |-> now - v.silenceStart > SilenceDurationMs]

\* guards of the bound: a call that would queue one task more is not taken
Pending == Len(rec.acq) + Len(rec.stopq) + timers
StartFits(r) == r.isRecording \/ Pending < cap.tasks
StopFits(r) == ~r.isRecording \/ Pending < cap.tasks

\* ------------------------------------------------------------- orchestrator
\* handleRecordingStop's guards
UploadGuard(e) == e.started /\ ~e.sending
\* a size test that lets the largest clip below the threshold through
IsTooSmallOffByOne(size) == size < MinClipBytes - 1
IsTooSmall(size) == size < MinClipBytes
\* mediaRecorder.onstop's guard
HasData(size) == size > 0

\* an update that leaves the stage out
ApplyResponseKeepsStage(s, r) ==
    [s EXCEPT !.canEditCode = r.can_edit_code,
              !.taskUnlocked = r.task_unlocked, !.interviewEnded = r.interview_ended,
              !.earlyTermination = r.early_termination, !.messages = r.messages_tail]

\* an update that never withdraws the edit permission
ApplyResponseEditSticky(s, r) ==
    [s EXCEPT !.stage = r.stage, !.canEditCode = @ \/ r.can_edit_code,
              !.taskUnlocked = r.task_unlocked, !.interviewEnded = r.interview_ended,
              !.earlyTermination = r.early_termination, !.messages = r.messages_tail]

\* an update that never withdraws the task
ApplyResponseUnlockSticky(s, r) ==
    [s EXCEPT !.stage = r.stage, !.canEditCode = r.can_edit_code,
              !.taskUnlocked = @ \/ r.task_unlocked, !.interviewEnded = r.interview_ended,
              !.earlyTermination = r.early_termination, !.messages = r.messages_tail]

\* the fields a start or submit response replaces
ApplyResponse(s, r) ==
    [s EXCEPT !.stage = r.stage, !.canEditCode = r.can_edit_code,
              !.taskUnlocked = r.task_unlocked, !.interviewEnded = r.interview_ended,
              !.earlyTermination = r.early_termination, !.messages = r.messages_tail]

\* what the page shows: the start overlay, the ended overlay, or the room
StartOverlay == state.showStartButton /\ ~state.interviewStarted
ControlsVisible == ~StartOverlay /\ ~state.interviewEnded

\* the start control can be used
CanStart == StartOverlay /\ ~state.isSending /\ ~state.interviewStarted

MonitorEnabledAnyEdit == state.stage = "CODING"

\* the argument 'enabled' the orchestrator passes to the idle monitor
MonitorEnabled == state.stage = "CODING" /\ state.canEditCode

\* Date.now() when the hooks mount: lastIdleCheckRef starts at 0, the epoch,
\* which lies more than a cooldown back
MountedAt == CooldownMs

\* the clock at t, the monitor's interval due at pollDue (-1: no interval)
ClockAt(t, pollDue) ==
    [now |-> t, lastActivity |-> MountedAt, lastIdleCheck |-> 0,
     enabledAt |-> t, pollDue |-> pollDue, saveTimers |-> {}, saveRef |-> 0,
     polls |-> <<>>, fired |-> <<>>, edits |-> <<>>, saved |-> <<>>]

\* the recorder's refs before any recording
VadIdle == [hasSpoken |-> FALSE, silenceStart |-> 0, samples |-> <<>>, heardBefore |-> FALSE]

\* Spec and SpecDeep do not track time: their timers fire in any order, and
\* their recorder stops on silence at any moment
InitWith(c) ==
    /\ cap = c
    /\ clk = ClockAt(MountedAt, -1)
    /\ vad = VadIdle
    /\ state = [messages |-> 0, stage |-> "INTRO", canEditCode |-> FALSE,
                taskUnlocked |-> FALSE, interviewEnded |-> FALSE,
                earlyTermination |-> FALSE, interviewStarted |-> FALSE,
                isSending |-> FALSE, showStartButton |-> TRUE, isMuted |-> TRUE]
    /\ audio = [el |-> "none", playEvt |-> FALSE, isPlaying |-> FALSE, detached |-> 0,
                cancelled |-> FALSE, endedCb |-> 0]
    /\ rec = [isRecording |-> FALSE, acq |-> <<>>,
              cb |-> [started |-> FALSE, sending |-> FALSE], stopq |-> <<>>,
              error |-> FALSE, held |-> FALSE]
    /\ timers = 0
    /\ calls = <<>>
    /\ nCalls = 0
    /\ srv \in {[stage |-> stg, msgs |-> 0] : stg \in {"INTRO", "CODING"}}
    /\ codeDebounce = FALSE
    /\ last = "none"
    /\ lastDeclared = "none"

Init == InitWith([calls |-> MaxCalls, tasks |-> MaxPending, step |-> 0, until |-> 0, edits |-> 0])

\* the same engine explored one call and one pending task deeper
InitDeep ==
    InitWith([calls |-> MaxCalls + 1, tasks |-> MaxPending + 1, step |-> 0, until |-> 0, edits |-> 0])

\* a call is sent: the service handles calls in the order they are sent
Issue(kind) ==
    /\ nCalls < cap.calls
    /\ nCalls' = nCalls + 1
    /\ \E a \in ServiceAnswers(kind) :
         /\ ServiceAnswer(kind, a)
         /\ srv' = a.srv
         /\ calls' = Append(calls, [kind |-> kind, resp |-> a.resp])

\* the calls in flight without the i-th
Without(i) == [j \in 1..(Len(calls) - 1) |-> IF j < i THEN calls[j] ELSE calls[j + 1]]

\* setTimeout(() => startRecordingRef.current?.(), ...) when cond holds, by
\* a task that was itself `freed` of the pending tasks
Schedule(cond, freed) ==
    /\ cond => Pending - freed < cap.tasks
    /\ timers' = IF cond THEN timers + 1 ELSE timers

\* playAudio when cond holds
PlayIf(cond) ==
    /\ audio' = IF cond THEN PlayAudio(audio) ELSE audio
    /\ last' = IF cond /\ Sounding(audio) THEN "replaced" ELSE "none"

\* ------------------------------------------------------------ user actions
\* handleStartInterview up to its await
HandleStartInterview ==
    /\ CanStart
    /\ state' = [state EXCEPT !.showStartButton = FALSE, !.isSending = TRUE]
    /\ Issue("start")
    /\ last' = "none"
    /\ UNCHANGED <<clk, vad, cap, audio, rec, timers, codeDebounce, lastDeclared>>

\* handleStartInterview called again by a caller other than the overlay's
\* control, before the session has started: its own guard is interviewStarted
HandleStartInterviewDirect ==
    /\ ~CanStart
    /\ ~state.interviewStarted
    /\ state' = [state EXCEPT !.showStartButton = FALSE, !.isSending = TRUE]
    /\ Issue("start")
    /\ last' = "none"
    /\ UNCHANGED <<clk, vad, cap, audio, rec, timers, codeDebounce, lastDeclared>>

\* toggleMute
ToggleMute ==
    /\ ControlsVisible
    /\ IF state.isMuted
       THEN /\ state' = [state EXCEPT !.isMuted = FALSE]
            /\ IF ~rec.isRecording /\ ~audio.isPlaying /\ ~state.isSending
               THEN StartFits(rec) /\ rec' = StartRecording(rec, CurrentClosure)
               ELSE rec' = rec
       ELSE /\ state' = [state EXCEPT !.isMuted = TRUE]
            /\ StopFits(rec)
            /\ rec' = StopRecording(rec)
    /\ last' = "none"
    /\ UNCHANGED <<clk, vad, cap, audio, timers, calls, nCalls, srv, codeDebounce, lastDeclared>>

\* handleCodeChange: the editor is enabled only while canEditCode, so the
\* timer's closure holds canEditCode = true
HandleCodeChange ==
    /\ ControlsVisible /\ state.canEditCode
    /\ codeDebounce' = TRUE
    /\ last' = "none"
    /\ UNCHANGED <<clk, vad, cap, state, audio, rec, timers, calls, nCalls, srv, lastDeclared>>

\* ------------------------------------------------------------------ timers
\* an auto-restart timer fires: startRecordingRef.current?.()
RestartTimerFires ==
    /\ timers > 0
    /\ timers' = timers - 1
    /\ rec' = StartRecording(rec, CurrentClosure)
    /\ last' = "none"
    /\ UNCHANGED <<clk, vad, cap, state, audio, calls, nCalls, srv, codeDebounce, lastDeclared>>

\* the autosave timer fires: postInterviewCode, fire and forget
CodeDebounceFires ==
    /\ codeDebounce
    /\ codeDebounce' = FALSE
    /\ last' = "none"
    /\ UNCHANGED <<clk, vad, cap, state, audio, rec, timers, calls, nCalls, srv, lastDeclared>>

\* the idle monitor's interval fires with its thresholds met: handleIdleNudge
IdleNudge ==
    /\ MonitorEnabled
    /\ Issue("idle")
    /\ last' = "none"
    /\ UNCHANGED <<clk, vad, cap, state, audio, rec, timers, codeDebounce, lastDeclared>>

\* ---------------------------------------------------------- recorder events
\* getUserMedia resolves: the rest of startRecording, then onRecordingStart
GetUserMediaResolves ==
    /\ rec.acq # <<>>
    /\ LET cl == Head(rec.acq) IN
       /\ rec' = [rec EXCEPT !.acq = Tail(@), !.isRecording = TRUE, !.held = TRUE,
                             !.cb = [started |-> cl.started, sending |-> cl.sending]]
       /\ audio' = IF cl.playing THEN StopAudio(audio) ELSE audio
    /\ vad' = VadReset(vad)
    /\ last' = "none"
    /\ UNCHANGED <<clk, cap, state, timers, calls, nCalls, srv, codeDebounce, lastDeclared>>

\* getUserMedia rejects: the catch block calls stopRecording
GetUserMediaRejects ==
    /\ rec.acq # <<>>
    /\ rec' = FailedStart([rec EXCEPT !.acq = Tail(@)])
    /\ last' = "none"
    /\ UNCHANGED <<clk, vad, cap, state, audio, timers, calls, nCalls, srv, codeDebounce,
                   lastDeclared>>

\* getUserMedia resolves and streamRef holds the stream, then the AudioContext
\* or the MediaRecorder cannot be constructed: the catch block
RecorderSetupFails ==
    /\ rec.acq # <<>>
    /\ rec' = FailedStart([rec EXCEPT !.acq = Tail(@), !.held = TRUE])
    /\ last' = "none"
    /\ UNCHANGED <<clk, vad, cap, state, audio, timers, calls, nCalls, srv, codeDebounce,
                   lastDeclared>>

\* checkAudioLevel finds the silence long enough: stopRecording
SilenceAutoStop ==
    /\ rec.isRecording
    /\ StopFits(rec)
    /\ rec' = StopRecording(rec)
    /\ last' = "none"
    /\ UNCHANGED <<clk, vad, cap, state, audio, timers, calls, nCalls, srv, codeDebounce,
                   lastDeclared>>

\* mediaRecorder.onerror: stopRecording
MediaRecorderOnError ==
    /\ rec.isRecording
    /\ StopFits(rec)
    /\ rec' = [StopRecording(rec) EXCEPT !.error = TRUE]
    /\ last' = "none"
    /\ UNCHANGED <<clk, vad, cap, state, audio, timers, calls, nCalls, srv, codeDebounce,
                   lastDeclared>>

\* mediaRecorder.onstop with a clip of this size, and handleRecordingStop up
\* to its await
MediaRecorderOnStop(size) ==
    /\ rec.stopq # <<>>
    /\ rec' = [rec EXCEPT !.stopq = Tail(@)]
    /\ LET e == Head(rec.stopq) IN
       IF ~HasData(size) THEN
          /\ last' = "none"
          /\ UNCHANGED <<state, audio, timers, calls, nCalls, srv>>
       ELSE IF ~UploadGuard(e) THEN
          /\ last' = "none"
          /\ UNCHANGED <<state, audio, timers, calls, nCalls, srv>>
       ELSE IF IsTooSmall(size) THEN
          /\ last' = "small"
          /\ Schedule(~state.isMuted, 1)
          /\ UNCHANGED <<state, audio, calls, nCalls, srv>>
       ELSE
          /\ last' = IF Idle(audio) THEN "idlestop" ELSE "none"
          /\ audio' = StopAudio(audio)
          /\ state' = [state EXCEPT !.isSending = TRUE]
          /\ Issue("audio")
          /\ UNCHANGED timers
    /\ UNCHANGED <<clk, vad, cap, codeDebounce, lastDeclared>>

\* ---------------------------------------------------------- playback events
\* audio.onplay
AudioOnPlay ==
    /\ audio.playEvt
    /\ audio' = [audio EXCEPT !.playEvt = FALSE, !.isPlaying = TRUE,
                              !.el = IF @ = "pending" THEN "playing" ELSE @]
    /\ last' = "none"
    /\ UNCHANGED <<clk, vad, cap, state, rec, timers, calls, nCalls, srv, codeDebounce,
                   lastDeclared>>

\* audio.onended, and handleAudioEnded
AudioOnEndedIgnoresMute ==
    /\ audio.el = "playing"
    /\ audio' = [audio EXCEPT !.el = "stopped", !.isPlaying = FALSE,
                              !.endedCb = @ + 1]
    /\ Schedule(TRUE, 0)
    /\ last' = "none"
    /\ UNCHANGED <<clk, vad, cap, state, rec, calls, nCalls, srv, codeDebounce, lastDeclared>>

AudioOnEnded ==
    /\ audio.el = "playing"
    /\ audio' = [audio EXCEPT !.el = "stopped", !.isPlaying = FALSE,
                              !.endedCb = @ + 1]
    /\ Schedule(~state.isMuted, 0)
    /\ last' = "none"
    /\ UNCHANGED <<clk, vad, cap, state, rec, calls, nCalls, srv, codeDebounce, lastDeclared>>

\* audio.onerror
AudioOnError ==
    /\ Sounding(audio)
    /\ audio' = [audio EXCEPT !.el = "stopped", !.isPlaying = FALSE]
    /\ last' = "none"
    /\ UNCHANGED <<clk, vad, cap, state, rec, timers, calls, nCalls, srv, codeDebounce,
                   lastDeclared>>

\* ------------------------------------------------------- promise continuations
\* handleStartInterview after startInterview resolved
StartResolved(i) ==
    /\ calls[i].kind = "start"
    /\ calls' = Without(i)
    /\ state' = [ApplyResponse(state, calls[i].resp) EXCEPT !.interviewStarted = TRUE,
                                                           !.isSending = FALSE]
    /\ lastDeclared' = calls[i].resp.stage
    /\ PlayIf(calls[i].resp.audio)
    /\ UNCHANGED <<clk, vad, cap, rec, timers, nCalls, srv, codeDebounce>>

\* handleStartInterview's catch block
StartRejectedKeepsSending(i) ==
    /\ calls[i].kind = "start"
    /\ calls' = Without(i)
    /\ state' = [state EXCEPT !.showStartButton = TRUE]
    /\ last' = "alert"
    /\ UNCHANGED <<clk, vad, cap, audio, rec, timers, nCalls, srv, codeDebounce, lastDeclared>>

StartRejected(i) ==
    /\ calls[i].kind = "start"
    /\ calls' = Without(i)
    /\ state' = [state EXCEPT !.showStartButton = TRUE, !.isSending = FALSE]
    /\ last' = "alert"
    /\ UNCHANGED <<clk, vad, cap, audio, rec, timers, nCalls, srv, codeDebounce, lastDeclared>>

\* a continuation that leaves the mute flag as it is when the interview ended
UploadResolvedKeepsMute(i) ==
    /\ calls[i].kind = "audio"
    /\ calls' = Without(i)
    /\ LET r == calls[i].resp
           shouldMute == state.isMuted IN
       /\ state' = [ApplyResponse(state, r) EXCEPT !.isMuted = shouldMute,
                                                  !.isSending = FALSE]
       /\ Schedule(~r.audio /\ ~shouldMute /\ ~r.interview_ended, 0)
       /\ lastDeclared' = r.stage
       /\ PlayIf(r.audio)
    /\ UNCHANGED <<clk, vad, cap, rec, nCalls, srv, codeDebounce>>

\* a continuation that leaves isSending set
UploadResolvedKeepsSending(i) ==
    /\ calls[i].kind = "audio"
    /\ calls' = Without(i)
    /\ LET r == calls[i].resp
           shouldMute == IF r.interview_ended THEN TRUE ELSE state.isMuted IN
       /\ state' = [ApplyResponse(state, r) EXCEPT !.isMuted = shouldMute]
       /\ Schedule(~r.audio /\ ~shouldMute /\ ~r.interview_ended, 0)
       /\ lastDeclared' = r.stage
       /\ PlayIf(r.audio)
    /\ UNCHANGED <<clk, vad, cap, rec, nCalls, srv, codeDebounce>>

\* handleRecordingStop after uploadInterviewAudio resolved
UploadResolved(i) ==
    /\ calls[i].kind = "audio"
    /\ calls' = Without(i)
    /\ LET r == calls[i].resp
           shouldMute == IF r.interview_ended THEN TRUE ELSE state.isMuted IN
       /\ state' = [ApplyResponse(state, r) EXCEPT !.isMuted = shouldMute,
                                                  !.isSending = FALSE]
       /\ Schedule(~r.audio /\ ~shouldMute /\ ~r.interview_ended, 0)
       /\ lastDeclared' = r.stage
       /\ PlayIf(r.audio)
    /\ UNCHANGED <<clk, vad, cap, rec, nCalls, srv, codeDebounce>>

\* handleRecordingStop's catch and finally blocks
UploadRejectedSilent(i) ==
    /\ calls[i].kind = "audio"
    /\ calls' = Without(i)
    /\ state' = [state EXCEPT !.isSending = FALSE]
    /\ Schedule(~state.isMuted, 0)
    /\ last' = "recovered"
    /\ UNCHANGED <<clk, vad, cap, audio, rec, nCalls, srv, codeDebounce, lastDeclared>>

UploadRejected(i) ==
    /\ calls[i].kind = "audio"
    /\ calls' = Without(i)
    /\ state' = [state EXCEPT !.isSending = FALSE]
    /\ Schedule(~state.isMuted, 0)
    /\ last' = IF state.isMuted THEN "alert" ELSE "recovered"
    /\ UNCHANGED <<clk, vad, cap, audio, rec, nCalls, srv, codeDebounce, lastDeclared>>

\* handleIdleNudge after postInterviewIdle resolved
IdleResolved(i) ==
    /\ calls[i].kind = "idle"
    /\ calls' = Without(i)
    /\ state' = IF calls[i].resp.assistant
                THEN [state EXCEPT !.messages = calls[i].resp.messages_tail]
                ELSE state
    /\ PlayIf(calls[i].resp.assistant /\ calls[i].resp.audio)
    /\ UNCHANGED <<clk, vad, cap, rec, timers, nCalls, srv, codeDebounce, lastDeclared>>

\* handleIdleNudge's catch block
IdleRejected(i) ==
    /\ calls[i].kind = "idle"
    /\ calls' = Without(i)
    /\ last' = "none"
    /\ UNCHANGED <<clk, vad, cap, state, audio, rec, timers, nCalls, srv, codeDebounce,
                   lastDeclared>>

\* ------------------------------------------------------------- timed runs
\* useIdleDetection's effect has installed its interval

\* an interval test that wants more than the threshold
IdleDueStrict(t, c) ==
    /\ (t - c.lastActivity) \div MsPerSecond > IdleThresholdS
    /\ t - c.lastIdleCheck >= CooldownMs

\* the interval callback's test
IdleDue(t, c) ==
    /\ (t - c.lastActivity) \div MsPerSecond >= IdleThresholdS
    /\ t - c.lastIdleCheck >= CooldownMs

\* a callback that leaves lastIdleCheckRef for later
RecordNudgeLate(c, t) == c

\* lastIdleCheckRef.current = now, before the callback is awaited
RecordNudge(c, t) == [c EXCEPT !.lastIdleCheck = t]

\* a handleCodeChange that does not clear the pending timer
RescheduleKeepsPending(ts, ref, t, v) == ts \cup {[due |-> t + DebounceMs, value |-> v]}

\* clearTimeout(codeDebounceRef.current), then a new timer for the value v
Reschedule(ts, ref, t, v) ==
    {x \in ts : x.value # ref} \cup {[due |-> t + DebounceMs, value |-> v]}

\* the times at which a timer is due
DueTimes ==
    {x.due : x \in clk.saveTimers} \cup (IF clk.pollDue >= 0 THEN {clk.pollDue} ELSE {})

\* the state of a started session in stage CODING with the editor unlocked,
\* nothing recording, playing or in flight, o ms after mount
InitAt(o, c) ==
    /\ cap = c
    /\ clk = ClockAt(MountedAt + o, MountedAt + o + PollMs)
    /\ vad = VadIdle
    /\ state = [messages |-> 1, stage |-> "CODING", canEditCode |-> TRUE,
                taskUnlocked |-> TRUE, interviewEnded |-> FALSE,
                earlyTermination |-> FALSE, interviewStarted |-> TRUE,
                isSending |-> FALSE, showStartButton |-> FALSE, isMuted |-> TRUE]
    /\ audio = [el |-> "none", playEvt |-> FALSE, isPlaying |-> FALSE, detached |-> 0,
                cancelled |-> FALSE, endedCb |-> 0]
    /\ rec = [isRecording |-> FALSE, acq |-> <<>>,
              cb |-> [started |-> FALSE, sending |-> FALSE], stopq |-> <<>>,
              error |-> FALSE, held |-> FALSE]
    /\ timers = 0
    /\ calls = <<>>
    /\ nCalls = 1
    /\ srv = [stage |-> "CODING", msgs |-> 1]
    /\ codeDebounce = FALSE
    /\ last = "none"
    /\ lastDeclared = "CODING"

\* the monitor is enabled with the mount, a little later, or long after
EnableOffsets == {0, 2 * MsPerSecond, CooldownMs + 2 * PollMs}

InitIdle ==
    \E o \in EnableOffsets :
        InitAt(o, [calls |-> MaxCalls + 1, tasks |-> MaxPending,
                   step |-> PollMs, until |-> MountedAt + HorizonMs,
                   edits |-> MaxIdleEdits])

InitAutosave ==
    InitAt(0, [calls |-> MaxCalls, tasks |-> MaxPending,
               step |-> FineStepMs, until |-> MountedAt + BurstMs,
               edits |-> MaxEdits])

\* time passes, up to the next timer that is due; timers fire when due
Tick ==
    /\ clk.now < cap.until
    /\ \A t \in DueTimes : t > clk.now
    /\ clk' = [clk EXCEPT !.now =
                 IF \E t \in DueTimes : t < clk.now + cap.step
                 THEN CHOOSE t \in DueTimes : \A u \in DueTimes : t <= u
                 ELSE clk.now + cap.step]
    /\ UNCHANGED <<state, audio, rec, timers, calls, nCalls, cap, srv, codeDebounce,
                   last, lastDeclared, vad>>

\* useIdleDetection's setInterval callback, and handleIdleNudge up to its await
IdleIntervalTick ==
    /\ MonitorEnabled
    /\ clk.pollDue = clk.now
    /\ IF IdleDue(clk.now, clk)
       THEN /\ Issue("idle")
            /\ clk' = [RecordNudge(clk, clk.now) EXCEPT
                         !.pollDue = @ + PollMs, !.polls = Append(@, clk.now),
                         !.fired = Append(@, clk.now)]
       ELSE /\ clk' = [clk EXCEPT !.pollDue = @ + PollMs, !.polls = Append(@, clk.now)]
            /\ UNCHANGED <<calls, nCalls, srv>>
    /\ last' = "none"
    /\ UNCHANGED <<vad, cap, state, audio, rec, timers, codeDebounce, lastDeclared>>

\* handleCodeChange at clk.now: the value typed is the number of the edit
HandleCodeChangeAt ==
    /\ ControlsVisible /\ state.canEditCode
    /\ Len(clk.edits) < cap.edits
    /\ LET v == Len(clk.edits) + 1 IN
       clk' = [clk EXCEPT !.saveTimers = Reschedule(@, clk.saveRef, clk.now, v),
                          !.saveRef = v, !.edits = Append(@, clk.now)]
    /\ codeDebounce' = TRUE
    /\ last' = "none"
    /\ UNCHANGED <<vad, cap, state, audio, rec, timers, calls, nCalls, srv, lastDeclared>>

\* an autosave timer fires when due: postInterviewCode with the value it holds
SaveTimerFires ==
    /\ \E x \in clk.saveTimers :
         /\ x.due = clk.now
         /\ clk' = [clk EXCEPT !.saveTimers = @ \ {x},
                               !.saved = Append(@, [at |-> clk.now, value |-> x.value])]
         /\ codeDebounce' = (clk.saveTimers # {x})
    /\ last' = "none"
    /\ UNCHANGED <<vad, cap, state, audio, rec, timers, calls, nCalls, srv, lastDeclared>>

\* the state of a started session in a conversation stage, muted, nothing
\* recording, playing or in flight
InitVad ==
    /\ cap = [calls |-> MaxCalls, tasks |-> MaxPending, step |-> FrameMs,
              until |-> MountedAt + ListenMs, edits |-> 0]
    /\ clk = ClockAt(MountedAt, -1)
    /\ vad = VadIdle
    /\ state = [messages |-> 1, stage |-> "SCREENING", canEditCode |-> FALSE,
                taskUnlocked |-> FALSE, interviewEnded |-> FALSE,
                earlyTermination |-> FALSE, interviewStarted |-> TRUE,
                isSending |-> FALSE, showStartButton |-> FALSE, isMuted |-> TRUE]
    /\ audio = [el |-> "none", playEvt |-> FALSE, isPlaying |-> FALSE, detached |-> 0,
                cancelled |-> FALSE, endedCb |-> 0]
    /\ rec = [isRecording |-> FALSE, acq |-> <<>>,
              cb |-> [started |-> FALSE, sending |-> FALSE], stopq |-> <<>>,
              error |-> FALSE, held |-> FALSE]
    /\ timers = 0
    /\ calls = <<>>
    /\ nCalls = 1
    /\ srv = [stage |-> "SCREENING", msgs |-> 1]
    /\ codeDebounce = FALSE
    /\ last = "none"
    /\ lastDeclared = "SCREENING"

\* an animation frame FrameMs after the previous one: checkAudioLevel reads a
\* sample that is silent or not
VadFrame(silent) ==
    /\ rec.isRecording
    /\ clk.now < cap.until
    /\ clk' = [clk EXCEPT !.now = @ + cap.step]
    /\ LET r == CheckAudioLevel(vad, silent, clk.now + cap.step) IN
       /\ vad' = r.vad
       /\ IF r.stop
          THEN StopFits(rec) /\ rec' = StopRecording(rec) /\ last' = "autostop"
          ELSE rec' = rec /\ last' = "none"
    /\ UNCHANGED <<cap, state, audio, timers, calls, nCalls, srv, codeDebounce,
                   lastDeclared>>

Next ==
    \/ HandleStartInterview
    \/ ToggleMute
    \/ HandleCodeChange
    \/ RestartTimerFires
    \/ CodeDebounceFires
    \/ IdleNudge
    \/ GetUserMediaResolves
    \/ GetUserMediaRejects
    \/ RecorderSetupFails
    \/ SilenceAutoStop
    \/ MediaRecorderOnError
    \/ \E size \in ClipSizes : MediaRecorderOnStop(size)
    \/ AudioOnPlay
    \/ AudioOnEnded
    \/ AudioOnError
    \/ \E i \in 1..Len(calls) : StartResolved(i)
    \/ \E i \in 1..Len(calls) : StartRejected(i)
    \/ \E i \in 1..Len(calls) : UploadResolved(i)
    \/ \E i \in 1..Len(calls) : UploadRejected(i)
    \/ \E i \in 1..Len(calls) : IdleResolved(i)
    \/ \E i \in 1..Len(calls) : IdleRejected(i)

Spec == Init /\ [][Next]_vars

SpecDeep == InitDeep /\ [][Next]_vars

\* the engine with its handlers also called directly, not only through the
\* controls the page shows
NextHandlers == Next \/ HandleStartInterviewDirect

SpecHandlers == Init /\ [][NextHandlers]_vars

\* the idle monitor against the clock
NextIdle ==
    \/ Tick
    \/ IdleIntervalTick
    \/ HandleCodeChangeAt
    \/ SaveTimerFires
    \/ \E i \in 1..Len(calls) : IdleResolved(i)
    \/ \E i \in 1..Len(calls) : IdleRejected(i)

SpecIdle == InitIdle /\ [][NextIdle]_vars

\* the autosave against the clock
NextAutosave ==
    \/ Tick
    \/ HandleCodeChangeAt
    \/ SaveTimerFires

SpecAutosave == InitAutosave /\ [][NextAutosave]_vars

\* the recorder's silence detection against the clock, over the few seconds
\* of recording in which no upload is answered
NextVad ==
    \/ \E silent \in BOOLEAN : VadFrame(silent)
    \/ ToggleMute
    \/ RestartTimerFires
    \/ GetUserMediaResolves
    \/ GetUserMediaRejects
    \/ \E size \in ClipSizes : MediaRecorderOnStop(size)

SpecVad == InitVad /\ [][NextVad]_vars

\* ------------------------------------------------------------------ properties
UploadsInFlight == Cardinality({i \in 1..Len(calls) : calls[i].kind = "audio"})

\* C1: at most one audio upload (uploadInterviewAudio) is outstanding at any
\* time, for every interleaving of stop events, mute toggles, auto-restart
\* timers and server responses.
C1_AtMostOneUpload == UploadsInFlight <= 1

\* playback is active: the element sounds and isPlaying says so
Playing == audio.isPlaying /\ audio.el = "playing"

\* this step calls getUserMedia
Acquires == Len(rec'.acq) > Len(rec.acq)

\* this step calls uploadInterviewAudio
IssuesUpload == nCalls' > nCalls /\ calls'[Len(calls')].kind = "audio"

\* this step calls postInterviewCode
WritesCode == codeDebounce /\ ~codeDebounce'

\* C2: whenever a recording is started while AI playback is active, playback
\* is stopped before the microphone is requested: no step calls getUserMedia
\* while playback is active.
C2_CancelBeforeAcquire == [][Acquires => ~Playing]_vars

\* C3: in every reachable state, recording active and playback active are
\* never both true.
C3_NeverRecordingAndPlaying == ~(rec.isRecording /\ Playing)

\* C4: once the session has ended (interviewEnded), no step starts a recording
\* cycle, issues an audio upload or issues a code write.
C4_NothingAfterEnded ==
    [][state.interviewEnded => ~Acquires /\ ~IssuesUpload /\ ~WritesCode]_vars

\* C5: the mirrored stage equals the stage declared by the most recently
\* applied start or submit response, and the initial stage before any.
C5_StageMirrorsLastResponse ==
    state.stage = (IF lastDeclared = "none" THEN "INTRO" ELSE lastDeclared)

C5_Witness == lastDeclared = "ENDED_EARLY" /\ state.interviewStarted

\* C6: in every reachable state, canEditCode is true only if stage is TASK
\* or CODING.
C6_CanEditOnlyInTaskOrCoding ==
    state.canEditCode => state.stage \in {"TASK", "CODING"}

C6_Witness == state.canEditCode /\ state.stage = "CODING" /\ lastDeclared = "CODING"

\* C7: a clip below the minimum size never causes a network call: the step
\* that delivers it issues no call and leaves isSending as it was.
C7_SmallClipNoCall ==
    [][\A size \in ClipSizes :
          (size < MinClipBytes /\ MediaRecorderOnStop(size))
          => (calls' = calls /\ nCalls' = nCalls /\ state'.isSending = state.isSending)]_vars

C7_Witness == last = "small" /\ state.isMuted

\* C8: when a clip below the minimum size, a zero-byte clip included, is
\* delivered in listening mode (unmuted) by a recording whose session is
\* started and not sending, a new recording cycle is scheduled.
C8_DiscardedClipRestarts ==
    [][\A size \in ClipSizes :
          (/\ size < MinClipBytes
           /\ ~state.isMuted
           /\ rec.stopq # <<>> /\ UploadGuard(Head(rec.stopq))
           /\ MediaRecorderOnStop(size))
          => timers' = timers + 1]_vars

\* C9: playAudio cancels the current payload before it starts the new one: no
\* element other than the current one is ever left sounding.
C9_OnePlayback == audio.detached = 0

C9_Witness == last = "replaced"

\* C10: stopAudio on an idle controller changes nothing, and stopAudio twice
\* gives what stopAudio once gives.
C10_StopAudioIdempotent ==
    /\ Idle(audio) => StopAudio(audio) = audio
    /\ StopAudio(StopAudio(audio)) = StopAudio(audio)

C10_Witness == last = "idlestop" /\ audio.el = "stopped"

\* C11: for each played payload the completion callback fires at most once,
\* on natural completion, and never for a payload that stopAudio or a later
\* playAudio cut short.
C11_EndedCallbackOnce ==
    /\ audio.endedCb <= 1
    /\ audio.cancelled => audio.endedCb = 0

C11_Witness == audio.cancelled /\ ~state.isMuted /\ timers = 0

\* this step calls postInterviewIdle
IssuesIdle == nCalls' > nCalls /\ calls'[Len(calls')].kind = "idle"

\* this step invokes the idle callback
Nudges == Len(clk'.fired) > Len(clk.fired)

\* C12: with continuous inactivity, a poll invokes the idle callback exactly
\* when the idle time has reached the threshold and the latest invocation, if
\* any, lies at least a cooldown back: first at the first poll with 30 s of
\* idle time, then not before 30 s later.
C12_IdleFiresOnSchedule ==
    clk.edits = <<>> =>
        \A k \in 1..Len(clk.polls) :
            LET p == clk.polls[k] IN
            (\E j \in 1..Len(clk.fired) : clk.fired[j] = p)
            <=> (/\ p - clk.lastActivity >= IdleThresholdS * MsPerSecond
                 /\ \A j \in 1..Len(clk.fired) :
                        clk.fired[j] < p => p - clk.fired[j] >= CooldownMs)

C12_Witness ==
    /\ clk.edits = <<>>
    /\ Len(clk.fired) = 2
    /\ clk.fired[1] = MountedAt + IdleThresholdS * MsPerSecond
    /\ clk.fired[2] = clk.fired[1] + CooldownMs

\* C13: any two invocations of the idle callback are at least a cooldown
\* apart, also while an earlier invocation's call is still outstanding.
C13_NudgesCooldownApart ==
    \A i, j \in 1..Len(clk.fired) :
        i < j => clk.fired[j] - clk.fired[i] >= CooldownMs

C13_Witness ==
    /\ Len(clk.fired) = 2 /\ Len(calls) = 2
    /\ Len(clk.polls) > 2

\* C14: postInterviewIdle is issued only while stage is CODING and
\* canEditCode is true.
C14_IdleOnlyWhileCodingEditable ==
    [][IssuesIdle => state.stage = "CODING" /\ state.canEditCode]_vars

C14_Witness == calls # <<>> /\ calls[1].kind = "idle" /\ MonitorEnabled

\* C15: the idle callback is not invoked until at least idleThreshold seconds
\* have passed since the most recent code edit.
C15_NoNudgeSoonAfterEdit ==
    [][Nudges => \A k \in 1..Len(clk.edits) :
                    clk.now - clk.edits[k] >= IdleThresholdS * MsPerSecond]_vars

\* the k-th edit is followed by no edit within the debounce delay
EndsBurst(k, gap) == k = Len(clk.edits) \/ clk.edits[k + 1] - clk.edits[k] >= gap

\* C16: every persist call carries the value of an edit that no other edit
\* followed before the call, is made 800 ms after that edit, and is made once;
\* an edit followed by no edit for more than 800 ms has been persisted.
C16_OnePersistPerBurst ==
    /\ \A n \in 1..Len(clk.saved) :
          LET s == clk.saved[n] IN
          /\ s.value \in 1..Len(clk.edits)
          /\ s.at = clk.edits[s.value] + DebounceMs
          /\ s.value = Len(clk.edits) \/ clk.edits[s.value + 1] >= s.at
    /\ \A m, n \in 1..Len(clk.saved) : m # n => clk.saved[m].value # clk.saved[n].value
    /\ \A k \in 1..Len(clk.edits) :
          (clk.now > clk.edits[k] + DebounceMs /\ EndsBurst(k, DebounceMs + 1))
          => \E n \in 1..Len(clk.saved) : clk.saved[n].value = k

C16_Witness ==
    /\ Len(clk.edits) = 3
    /\ ~EndsBurst(1, DebounceMs) /\ ~EndsBurst(2, DebounceMs)
    /\ clk.saved = <<[at |-> clk.edits[3] + DebounceMs, value |-> 3]>>

\* C17: no postInterviewCode call is issued at a moment when canEditCode is
\* false or the session has ended.
C17_NoWriteWhenIneligible ==
    [][WritesCode => state.canEditCode /\ ~state.interviewEnded]_vars

\* C18: a successful start with an audio reply plays the greeting; a natural
\* end of playback schedules a new recording cycle when unmuted and not
\* ended, and starts or schedules no recording when muted.
C18_GreetingThenListen ==
    [][/\ \A i \in 1..Len(calls) :
             (StartResolved(i) /\ calls[i].resp.audio)
             => audio'.el = "pending" /\ audio'.playEvt
       /\ AudioOnEnded =>
             IF state.isMuted
             THEN timers' = timers /\ rec' = rec
             ELSE ~state.interviewEnded => timers' = timers + 1]_vars

C18_Witness ==
    /\ nCalls = 1 /\ calls = <<>> /\ state.interviewStarted
    /\ audio.endedCb = 1 /\ ~state.isMuted /\ ~state.interviewEnded
    /\ timers = 1

\* the fields a response would set are left as they are
KeepsConversation ==
    /\ state'.stage = state.stage
    /\ state'.canEditCode = state.canEditCode
    /\ state'.taskUnlocked = state.taskUnlocked
    /\ state'.interviewEnded = state.interviewEnded
    /\ state'.earlyTermination = state.earlyTermination
    /\ state'.messages = state.messages

\* C19: a failed start call surfaces the error and leaves the session not
\* started, the start control available, sending cleared and the stage, flags
\* and messages unchanged, so the start control can be used again.
C19_StartFailureRetryable ==
    [][\A i \in 1..Len(calls) :
          StartRejected(i) =>
              /\ last' = "alert"
              /\ ~state'.interviewStarted
              /\ state'.showStartButton /\ ~state'.isSending
              /\ KeepsConversation
              /\ CanStart']_vars

C19_Witness ==
    /\ last = "alert" /\ ~state.interviewStarted
    /\ nCalls = 1 /\ calls = <<>> /\ CanStart

C21_NoRelistenAfterEnd ==
    [][/\ \A i \in 1..Len(calls) :
             (UploadResolved(i) /\ calls[i].resp.interview_ended)
             => /\ calls[i].resp.audio => audio'.el = "pending" /\ audio'.playEvt
                /\ timers' = timers /\ rec' = rec
       /\ (AudioOnEnded /\ state.interviewEnded)
             => timers' = timers /\ rec' = rec]_vars

C21_Witness ==
    /\ state.interviewEnded /\ state.stage = "ENDED_EARLY"
    /\ audio.endedCb = 1 /\ audio.el = "stopped"
    /\ timers = 0 /\ rec.acq = <<>> /\ ~rec.isRecording

\* C22: muting leaves a recording in progress as it is.
C22_MuteKeepsRecording ==
    [][(ToggleMute /\ ~state.isMuted) => rec' = rec]_vars

\* recorder activations: microphone requests outstanding, and the recording
Activations == Len(rec.acq) + (IF rec.isRecording THEN 1 ELSE 0)

\* C23: a startRecording call made while an activation is recording or being
\* set up requests no microphone: at most one activation exists.
C23_OneActivation ==
    [][Activations > 0 => ~Acquires]_vars

\* C24: every stop event of the MediaRecorder hands its clip to
\* onRecordingStop.
C24_EveryStopDelivers ==
    [][\A size \in ClipSizes : MediaRecorderOnStop(size) => HasData(size)]_vars

\* C25: the local message list only grows: no applied response leaves fewer
\* messages than were shown before.
C25_MessagesAppendOnly ==
    [][state'.messages >= state.messages]_vars

\* C26: the mirrored stage never moves backward in the order of the stages.
C26_StageMonotonic ==
    [][StageOrder(state'.stage) >= StageOrder(state.stage)]_vars

\* start or submit calls in flight
SendingCalls == {i \in 1..Len(calls) : calls[i].kind \in {"start", "audio"}}

\* C27: isSending is true only while a start or submit call is in flight, and
\* the step in which such a call resolves or rejects leaves it false.
C27_SendingCleared ==
    [][/\ state'.isSending => SendingCalls' # {}
       /\ \A i \in 1..Len(calls) :
             (StartResolved(i) \/ StartRejected(i) \/ UploadResolved(i) \/ UploadRejected(i))
             => ~state'.isSending]_vars

C27_Witness ==
    /\ ~state.isSending /\ calls = <<>> /\ state.messages = 3
    /\ state.interviewStarted /\ last # "alert" /\ last # "recovered"

\* C30: after a startRecording call whose microphone request failed, playback
\* is not active.
C30_FailedStartStopsPlayback ==
    [][GetUserMediaRejects => ~Playing']_vars

\* the samples read in this recording include speech
Spoken(h) == \E k \in 1..Len(h) : ~h[k].silent

\* the first sample of the run of silent samples that ends the samples read
RunStart(h) ==
    CHOOSE k \in 1..Len(h) :
        /\ \A j \in k..Len(h) : h[j].silent
        /\ k = 1 \/ ~h[k - 1].silent

\* after speech, the samples end in a run of silence longer than the duration
LongSilence(h) ==
    /\ h # <<>> /\ h[Len(h)].silent /\ Spoken(h)
    /\ h[Len(h)].at - h[RunStart(h)].at > SilenceDurationMs

\* C28: a recording that stopped on silence has read a sample with speech in
\* its own cycle, however long the silence before; every cycle starts with
\* hasSpoken false and no silence timer.
C28_NoStopBeforeSpeech ==
    /\ last = "autostop" => Spoken(vad.samples)
    /\ (rec.isRecording /\ ~Spoken(vad.samples)) => ~vad.hasSpoken /\ vad.silenceStart = 0

C28_Witness ==
    /\ rec.isRecording /\ vad.heardBefore /\ ~vad.hasSpoken
    /\ Len(vad.samples) > 1 /\ ~Spoken(vad.samples)
    /\ vad.samples[Len(vad.samples)].at - vad.samples[1].at > SilenceDurationMs

\* C29: the recorder stops on silence exactly when, after speech, the run of
\* silent samples that ends the samples read has lasted longer than
\* silenceDuration; a sample with speech starts the run over.
C29_StopsAfterSilenceRun ==
    /\ last = "autostop" => LongSilence(vad.samples)
    /\ rec.isRecording => ~LongSilence(vad.samples)

C29_Witness ==
    /\ last = "autostop" /\ Len(vad.samples) = 8
    /\ vad.samples[2].silent /\ ~vad.samples[3].silent

\* C31: while the recorder's error is set, after a permission denial or a
\* device error, no auto-restart timer calls getUserMedia.
C31_NoRetryAfterRecorderError ==
    [][(rec.error /\ RestartTimerFires) => ~Acquires]_vars

\* the fields of the mirror that responses set
Conversation(s) ==
    [stage |-> s.stage, can_edit_code |-> s.canEditCode,
     task_unlocked |-> s.taskUnlocked, interview_ended |-> s.interviewEnded,
     early_termination |-> s.earlyTermination, messages_tail |-> s.messages]

\* C32: a resolved submit leaves stage, canEditCode, taskUnlocked, ended,
\* endedEarly and messages equal to the response's values, and no step other
\* than a resolved start, submit or idle call changes any of them.
C32_MirrorReplacedWholesale ==
    [][/\ \A i \in 1..Len(calls) :
             UploadResolved(i)
             => Conversation(state') =
                  [f \in DOMAIN Conversation(state) |-> calls[i].resp[f]]
       /\ Conversation(state') # Conversation(state)
             => \E i \in 1..Len(calls) :
                   StartResolved(i) \/ UploadResolved(i) \/ IdleResolved(i)]_vars

C32_Witness ==
    /\ state.stage = "ENDED_EARLY" /\ ~state.taskUnlocked /\ state.earlyTermination
    /\ state.messages = 3 /\ srv.stage = "ENDED_EARLY" /\ calls = <<>>

\* a submit's reply has been applied: the start leaves one message, a submit
\* adds the candidate's and the assistant's
SubmitApplied == state.messages > 2 /\ UploadsInFlight = 0

\* C33: in listening mode with no recording active, requested or scheduled,
\* a submit's reply whose playback errors or fails to start schedules a new
\* recording cycle.
C33_ListeningResumes ==
    [][(/\ AudioOnError
        /\ SubmitApplied
        /\ ~state.isMuted /\ state.interviewStarted /\ ~state.interviewEnded
        /\ Activations = 0 /\ timers = 0)
       => timers' = timers + 1]_vars

\* C34: a stop event with a clip of at least the minimum size, delivered while
\* the session is started and no upload is in flight, issues an upload.
C34_GuardReadsCurrentState ==
    [][\A size \in ClipSizes :
          (/\ MediaRecorderOnStop(size)
           /\ size >= MinClipBytes
           /\ state.interviewStarted /\ ~state.isSending /\ UploadsInFlight = 0)
          => IssuesUpload]_vars

\* C35: while muted, no auto-restart timer calls getUserMedia.
C35_NoAutoStartWhileMuted ==
    [][(state.isMuted /\ RestartTimerFires) => ~Acquires]_vars

\* C36: after a startRecording call that failed, at the permission request
\* or at the setup after it, no microphone stream is held and the recorder is
\* not recording.
C36_FailedStartHoldsNothing ==
    [][(GetUserMediaRejects \/ RecorderSetupFails)
       => ~rec'.held /\ ~rec'.isRecording]_vars

\* C37: at most one start call is outstanding, and a started session issues
\* no start call.
C37_OneStartCall ==
    [][/\ Cardinality({i \in 1..Len(calls') : calls'[i].kind = "start"}) <= 1
       /\ state.interviewStarted
             => ~(nCalls' > nCalls /\ calls'[Len(calls')].kind = "start")]_vars

\* C38: the idle callback is invoked only when the monitor has been enabled
\* for at least idleThreshold seconds.
C38_IdleCountsFromEnable ==
    [][Nudges => clk.now - clk.enabledAt >= IdleThresholdS * MsPerSecond]_vars

====
